---- MODULE Spec2Model ----
(***************************************************************************)
(* KubeForge: the provisioning orchestrator (internal/api/clusters.go),    *)
(* the kubeadm provisioner's specification checks (internal/provision) and *)
(* the WebSocket fan-out hub (internal/api/websocket.go) as one state      *)
(* machine.                                                                *)
(*                                                                         *)
(* A step of a goroutine is the local computation and the remote calls     *)
(* that lead to its next operation on shared state (a repository write, a  *)
(* channel send or receive, a write to a connection), together with that   *)
(* operation.  Remote calls change nothing another goroutine can read, so  *)
(* this grouping loses no interleaving.                                    *)
(***************************************************************************)
EXTENDS Integers, Sequences, FiniteSets, TLC

(***************************************************************************)
(* Bounds of the model.                                                    *)
(***************************************************************************)
\* clusters created while the orchestrator is checked (ids are assigned by
\* auto-increment from 1)
NumClusters == 1
\* clusters created while the hub is checked
HubClusters == 2
\* control-plane hosts of a create request
MaxCP == 2
\* worker hosts of a create request
MaxWorkers == 1
\* WebSocket connections ever upgraded
NumConns == 2
\* capacity of Hub.broadcast, scaled down from make(chan, 256) so that it fills
BroadcastCap == 2
\* the history query's Limit, scaled down from Limit(50) so that it truncates
HistoryLimit == 1

ClusterIDs == 1..(IF NumClusters > HubClusters THEN NumClusters ELSE HubClusters)
Conns == 1..NumConns

(***************************************************************************)
(* Values.  Addresses and host names are token sequences; <<>> is the      *)
(* empty string of the Go code.                                            *)
(***************************************************************************)
Empty == <<>>
Localhost == <<"localhost">>
NoEvent == [id |-> 0]
NoMessage == [clusterID |-> 0, data |-> NoEvent]
NoResult == [Kubeconfig |-> "", JoinCommand |-> "", CertificateKey |-> ""]
NoSession == [op |-> "none"]
NoOperation == [op |-> "none"]

Min(a, b) == IF a < b THEN a ELSE b

RECURSIVE Reverse(_)
Reverse(s) == IF s = <<>> THEN <<>> ELSE Append(Reverse(Tail(s)), Head(s))

\* one host of a request; v names what the request leaves out
HostSpec(a, v) ==
    [ Hostname   |-> IF v = "blank" THEN Empty ELSE <<"h">> \o a,
      Address    |-> IF v = "noaddr" THEN Empty ELSE a,
      User       |-> IF v = "blank" THEN "" ELSE "ubuntu",
      SSHKey     |-> "",
      SSHKeyPath |-> IF v = "nokey" THEN "" ELSE "/k",
      Port       |-> IF v = "blank" THEN 0 ELSE 22 ]

\* the create requests the model submits: ncp control planes, nw workers, all
\* complete except the last host, which is of kind v
CreateClusterRequest(name, ncp, nw, cni, v) ==
    [ Name             |-> name,
      K8sVersion       |-> "",
      PodNetworkCIDR   |-> "",
      ServiceCIDR      |-> "",
      CNI              |-> cni,
      ContainerRuntime |-> "",
      ControlPlanes    |-> [i \in 1..ncp |->
                              HostSpec(<<"cp", i>>, IF i = ncp + nw THEN v ELSE "good")],
      Workers          |-> [j \in 1..nw |->
                              HostSpec(<<"w", j>>, IF ncp + j = ncp + nw THEN v ELSE "good")] ]

HostKinds == {"good", "nokey", "noaddr", "blank"}
CNIs == {"", "cilium"}

\* names a request may carry when id is the next cluster id: none, a name in
\* use, or a fresh one (fresh names are interchangeable)
RequestNames(id) == {Empty} \cup {<<"c", i>> : i \in 1..id}

Requests(id) ==
    { CreateClusterRequest(name, ncp, nw, cni, v) :
        name \in RequestNames(id), ncp \in 0..MaxCP, nw \in 0..MaxWorkers,
        cni \in CNIs, v \in HostKinds }

VARIABLES
    clusters,   \* the clusters table, row c is cluster id c
    nodes,      \* the nodes table
    jobs,       \* the jobs table
    events,     \* the events table in insert order
    req,        \* req[c]: the request the provisioning goroutine of c was started with
    task,       \* task[c]: the provisioning goroutine of cluster c
    calls,      \* calls[c]: the provisioner operations invoked for c, in order
    broadcast,  \* the buffer of channel Hub.broadcast
    hub,        \* the goroutine running Hub.Run
    clients,    \* Hub.clients: cluster id -> set of connections
    conn,       \* conn[k]: WebSocket connection k and the goroutines of its handler
    recv,       \* recv[k]: the frames written to connection k that reached its peer
    repo,       \* whether the repository accepts statements: "up" or "down"
    resp,       \* resp[c]: the status in the view CreateCluster returned for c
    arg,        \* the argument of the function under study
    out,        \* its results, one per application
    session,    \* one operation of an SSHClient and the remote process it runs
    process,    \* the server process: "serving", "shutdown" or "exited"
    prov        \* one operation of the provisioner, step by step

vars == <<clusters, nodes, jobs, events, req, task, calls, broadcast, hub, clients,
          conn, recv, repo, resp, arg, out, session, process, prov>>
auxVars == <<repo, resp, arg, out, session, process, prov>>
orchVars == <<clusters, nodes, jobs, events, req, task, calls>>
connVars == <<clients, conn, recv>>

Created == 1..Len(clusters)

(***************************************************************************)
(* internal/provision: the registry and the specification checks.          *)
(***************************************************************************)
\* names registered by init()
provisionerRegistry == {"kubeadm"}

\* GetProvisioner: TRUE when the lookup succeeds
GetProvisioner(name) == name \in provisionerRegistry

\* HostSpec.Validate as it would be without its check of the key
HostValidateAddressOnly(hs) ==
    IF hs.Address = Empty THEN "host address is required" ELSE ""

\* HostSpec.Validate: the error, "" for nil.  The receiver is the loop variable
\* of ClusterSpec.Validate, a copy: the defaults it sets are discarded.
HostValidate(hs) ==
    IF hs.Address = Empty THEN "host address is required"
    ELSE IF hs.SSHKey = "" /\ hs.SSHKeyPath = "" THEN "SSH key or key path is required"
    ELSE ""

RECURSIVE FirstHostError(_)
FirstHostError(hosts) ==
    IF hosts = <<>> THEN ""
    ELSE IF HostValidate(Head(hosts)) # "" THEN HostValidate(Head(hosts))
    ELSE FirstHostError(Tail(hosts))

Default(v, d) == IF v = "" THEN d ELSE v

\* ClusterSpec.Validate as it would be if accepting a host consumed its key
\* path
ValidateConsumesKeyPath(cs) ==
    IF cs.Name = Empty THEN [err |-> "cluster name is required", spec |-> cs]
    ELSE IF Len(cs.ControlPlanes) = 0
    THEN [err |-> "at least one control plane is required", spec |-> cs]
    ELSE [ err  |-> FirstHostError(cs.ControlPlanes \o cs.Workers),
           spec |-> [cs EXCEPT !.K8sVersion = Default(@, "1.28.0"),
                               !.PodNetworkCIDR = Default(@, "10.244.0.0/16"),
                               !.ServiceCIDR = Default(@, "10.96.0.0/12"),
                               !.CNI = Default(@, "calico"),
                               !.ContainerRuntime = Default(@, "containerd"),
                               !.ControlPlanes =
                                   [i \in DOMAIN @ |-> [@[i] EXCEPT !.SSHKeyPath = ""]]] ]

\* ClusterSpec.Validate: the error and the specification it leaves behind
Validate(cs) ==
    IF cs.Name = Empty THEN [err |-> "cluster name is required", spec |-> cs]
    ELSE IF Len(cs.ControlPlanes) = 0
    THEN [err |-> "at least one control plane is required", spec |-> cs]
    ELSE [ err  |-> FirstHostError(cs.ControlPlanes \o cs.Workers),
           spec |-> [cs EXCEPT !.K8sVersion = Default(@, "1.28.0"),
                               !.PodNetworkCIDR = Default(@, "10.244.0.0/16"),
                               !.ServiceCIDR = Default(@, "10.96.0.0/12"),
                               !.CNI = Default(@, "calico"),
                               !.ContainerRuntime = Default(@, "containerd")] ]

\* the ClusterSpec provisionCluster builds from its request and validates
SpecOf(c) == Validate(req[c]).spec

\* NewSSHClient: whether a session to the host can be opened at all
CanConnect(host) ==
    /\ host.SSHKey # "" \/ host.SSHKeyPath # ""
    /\ host.Port # 0

\* the outcomes (TRUE: success) of an operation that needs a session to the host
RemoteOutcomes(host) == IF CanConnect(host) THEN BOOLEAN ELSE {FALSE}

\* InstallCNI: cilium and unknown plugins are refused before any session is opened
InstallCNIOutcomes(cni, host) ==
    IF cni \in {"calico", "flannel", "weave"} THEN RemoteOutcomes(host) ELSE {FALSE}

\* what BootstrapControlPlane returns on success: the join command, certificate
\* key and kubeconfig read from the remote output, each possibly empty
BootstrapResults ==
    { [Kubeconfig |-> "admin.conf", JoinCommand |-> "kubeadm join", CertificateKey |-> "KEY"],
      NoResult }

(***************************************************************************)
(* internal/api/clusters.go: the repository writes of the orchestrator.    *)
(***************************************************************************)
\* db.DB.Model(&db.Cluster{}).Where("id = ?", c).Update("status", s): the
\* model has a DeletedAt column, so the update skips a tombstoned row; its
\* error is not looked at, so a failed update changes nothing
UpdateStatus(cl, c, s) ==
    IF cl[c].Deleted \/ repo = "down" THEN cl ELSE [cl EXCEPT ![c].Status = s]

\* ...Updates(map{kubeconfig, join_command, certificate_key}): a map update
\* writes empty values too
UpdateCredentials(cl, c, result) ==
    IF cl[c].Deleted \/ repo = "down" THEN cl
    ELSE [cl EXCEPT ![c].Kubeconfig = result.Kubeconfig,
                    ![c].JoinCommand = result.JoinCommand,
                    ![c].CertificateKey = result.CertificateKey]

\* the db.Event logEvent builds; the insert gives it the next id, and its
\* timestamp orders it after every event inserted before
NewEvent(c, level, host, step, message) ==
    [ id |-> Len(events) + 1, cluster_id |-> c, level |-> level, host |-> host,
      step |-> step, message |-> message ]

\* db.DB.Create(&event), whose error logEvent does not look at: the table
\* after the call, and the record the caller is left with (its id stays 0
\* when the insert failed)
Insert(evs, e) == IF repo = "up" THEN Append(evs, e) ELSE evs
AfterCreate(e) == IF repo = "up" THEN e ELSE [e EXCEPT !.id = 0]

\* logEvent up to db.DB.Create(&event); the send on Hub.broadcast is the
\* goroutine's next step (ProvBroadcast), after which it goes on at next.
\* tk is the goroutine table the caller leaves behind.
logEvent(tk, c, level, host, step, message, next) ==
    /\ events' = Insert(events, NewEvent(c, level, host, step, <<message>>))
    /\ task' = [tk EXCEPT ![c].pc = "broadcast",
                            ![c].emit = AfterCreate(NewEvent(c, level, host, step, <<message>>)),
                            ![c].fail = FALSE,
                            ![c].next = next]

\* logError as it would be if an error always ended the goroutine
logErrorAbort(tk, c, message, next) ==
    /\ events' = Insert(events, NewEvent(c, "error", Localhost, "error", <<message, "err">>))
    /\ task' = [tk EXCEPT ![c].pc = "broadcast",
                            ![c].emit = AfterCreate(NewEvent(c, "error", Localhost, "error",
                                                          <<message, "err">>)),
                            ![c].fail = TRUE,
                            ![c].next = "done"]

\* logError: logEvent of the error, then (ProvSetFailed) the status update
logError(tk, c, message, next) ==
    /\ events' = Insert(events, NewEvent(c, "error", Localhost, "error", <<message, "err">>))
    /\ task' = [tk EXCEPT ![c].pc = "broadcast",
                            ![c].emit = AfterCreate(NewEvent(c, "error", Localhost, "error",
                                                          <<message, "err">>)),
                            ![c].fail = TRUE,
                            ![c].next = next]

Call(op, host, ok) == [op |-> op, host |-> host.Address, ok |-> ok]

\* the join loops as they would be without the control-plane loop
JoinListWorkersOnly(c) ==
    [j \in 1..Len(SpecOf(c).Workers) |->
        [role |-> "worker", host |-> SpecOf(c).Workers[j]]]

\* the join loops as they would be with the worker loop first
JoinListWorkersFirst(c) ==
    [j \in 1..Len(SpecOf(c).Workers) |->
        [role |-> "worker", host |-> SpecOf(c).Workers[j]]]
    \o [i \in 1..(Len(SpecOf(c).ControlPlanes) - 1) |->
        [role |-> "control plane", host |-> SpecOf(c).ControlPlanes[i + 1]]]

\* the hosts joined after bootstrap, in the order of the two loops
JoinList(c) ==
    [i \in 1..(Len(SpecOf(c).ControlPlanes) - 1) |->
        [role |-> "control plane", host |-> SpecOf(c).ControlPlanes[i + 1]]]
    \o [j \in 1..Len(SpecOf(c).Workers) |->
        [role |-> "worker", host |-> SpecOf(c).Workers[j]]]

NodeRow(id, host, role) ==
    [ ClusterID |-> id, Address |-> host.Address, Role |-> role,
      Port |-> IF host.Port = 0 THEN 22 ELSE host.Port,
      Status |-> "provisioning", Deleted |-> FALSE ]

\* the insert as it would be if the handler created the job a second time
InsertJobTwice(js, id) ==
    js \o << [ ClusterID |-> id, Type |-> "provision", Status |-> "pending", Progress |-> 0 ],
             [ ClusterID |-> id, Type |-> "provision", Status |-> "pending", Progress |-> 0 ] >>

\* CreateCluster: db.DB.Create(&job)
InsertJob(js, id) ==
    Append(js, [ ClusterID |-> id, Type |-> "provision", Status |-> "pending", Progress |-> 0 ])

(***************************************************************************)
(* CreateCluster: the request is refused (400) without a name or a control *)
(* plane, and (500) when the insert of the cluster fails: the unique index *)
(* on the name rejects it, or the repository is down.  Otherwise the       *)
(* cluster, its nodes and a job are inserted and the provisioning          *)
(* goroutine is started; the handler's last two lines, which run beside    *)
(* that goroutine, are CreateClusterRespond.                               *)
(***************************************************************************)
CreateCluster(r) ==
    /\ IF \/ r.Name = Empty
          \/ Len(r.ControlPlanes) = 0
          \/ \E c \in Created : clusters[c].Name = r.Name
          \/ repo = "down"
       THEN UNCHANGED vars
       ELSE LET id == Len(clusters) + 1 IN
            /\ clusters' = Append(clusters,
                   [ ID |-> id, Name |-> r.Name, CNI |-> Default(r.CNI, "calico"),
                     Provider |-> "kubeadm", Status |-> "pending",
                     Kubeconfig |-> "", JoinCommand |-> "", CertificateKey |-> "",
                     Deleted |-> FALSE ])
            /\ nodes' = nodes
                   \o [i \in 1..Len(r.ControlPlanes) |->
                         NodeRow(id, r.ControlPlanes[i], "control-plane")]
                   \o [j \in 1..Len(r.Workers) |-> NodeRow(id, r.Workers[j], "worker")]
            /\ jobs' = InsertJob(jobs, id)
            /\ req' = Append(req, r)
            /\ task' = Append(task, [ pc |-> "start", idx |-> 1, emit |-> NoEvent,
                                      fail |-> FALSE, next |-> "start",
                                      result |-> NoResult ])
            /\ calls' = Append(calls, <<>>)
            /\ resp' = Append(resp, "")
            /\ UNCHANGED <<events, broadcast, hub, clients, conn, recv, repo, arg, out, session, process, prov>>

\* the end of CreateCluster, after `go h.provisionCluster`: the cluster is read
\* again and returned.  When the read finds no row (tombstoned, or the
\* repository is down) the handler's own record, still pending, is returned.
CreateClusterRespond(c) ==
    /\ c \in Created
    /\ resp[c] = ""
    /\ resp' = [resp EXCEPT ![c] = IF clusters[c].Deleted \/ repo = "down"
                                   THEN "pending" ELSE clusters[c].Status]
    /\ UNCHANGED <<orchVars, broadcast, hub, connVars, repo, arg, out, session, process, prov>>

\* DeleteCluster: db.DB.Delete(&db.Cluster{}, id) tombstones the row (soft
\* delete); nothing else is touched
DeleteCluster(c) ==
    /\ c \in Created
    /\ ~clusters[c].Deleted
    /\ clusters' = [clusters EXCEPT ![c].Deleted = TRUE]
    /\ UNCHANGED <<nodes, jobs, events, req, task, calls, broadcast, hub, clients,
                   conn, recv>>

    /\ UNCHANGED auxVars
(***************************************************************************)
(* provisionCluster, one action per position of the goroutine.             *)
(***************************************************************************)
\* line 346: status -> provisioning
ProvStart(c) ==
    /\ c \in Created
    /\ task[c].pc = "start"
    /\ clusters' = UpdateStatus(clusters, c, "provisioning")
    /\ task' = [task EXCEPT ![c].pc = "validate"]
    /\ UNCHANGED <<nodes, jobs, events, req, calls, broadcast, hub, clients, conn, recv>>

    /\ UNCHANGED auxVars
\* lines 348-376: provisioner lookup, ValidateSpec, the prepare event
ProvValidate(c) ==
    /\ c \in Created
    /\ task[c].pc = "validate"
    /\ IF ~GetProvisioner(clusters[c].Provider)
       THEN logError(task, c, "Failed to get provisioner", "done")
       ELSE IF Validate(req[c]).err # ""
       THEN logError(task, c, "Invalid cluster spec", "done")
       ELSE logEvent(task, c, "info", Localhost, "prepare", "Preparing hosts", "prepare")
    /\ UNCHANGED <<clusters, nodes, jobs, req, calls, broadcast, hub, clients, conn, recv>>

    /\ UNCHANGED auxVars
\* the send of logEvent on Hub.broadcast: blocks while the buffer is full
\* the send as it would be on a channel without a bound
ProvBroadcastUnbounded(c) ==
    /\ c \in Created
    /\ task[c].pc = "broadcast"
    /\ broadcast' = Append(broadcast, [clusterID |-> c, data |-> task[c].emit])
    /\ task' = [task EXCEPT ![c].pc = IF task[c].fail THEN "setfailed" ELSE task[c].next,
                            ![c].emit = NoEvent]
    /\ UNCHANGED <<clusters, nodes, jobs, events, req, calls, hub, clients, conn, recv>>
    /\ UNCHANGED auxVars

ProvBroadcast(c) ==
    /\ c \in Created
    /\ task[c].pc = "broadcast"
    /\ Len(broadcast) < BroadcastCap
    /\ broadcast' = Append(broadcast, [clusterID |-> c, data |-> task[c].emit])
    /\ task' = [task EXCEPT ![c].pc = IF task[c].fail THEN "setfailed" ELSE task[c].next,
                            ![c].emit = NoEvent]
    /\ UNCHANGED <<clusters, nodes, jobs, events, req, calls, hub, clients, conn, recv>>

    /\ UNCHANGED auxVars
\* logError as it would be without its status update
ProvSetFailedSkipped(c) ==
    /\ c \in Created
    /\ task[c].pc = "setfailed"
    /\ task' = [task EXCEPT ![c].pc = task[c].next, ![c].fail = FALSE]
    /\ UNCHANGED <<clusters, nodes, jobs, events, req, calls, broadcast, hub, clients,
                   conn, recv>>

    /\ UNCHANGED auxVars
\* line 526 of logError: status -> failed
ProvSetFailed(c) ==
    /\ c \in Created
    /\ task[c].pc = "setfailed"
    /\ clusters' = UpdateStatus(clusters, c, "failed")
    /\ task' = [task EXCEPT ![c].pc = task[c].next, ![c].fail = FALSE]
    /\ UNCHANGED <<nodes, jobs, events, req, calls, broadcast, hub, clients, conn, recv>>

    /\ UNCHANGED auxVars
\* lines 378-384: PrepareHosts prepares the hosts in order and stops at the
\* first that fails; k hosts succeed
ProvPrepare(c) ==
    /\ c \in Created
    /\ task[c].pc = "prepare"
    /\ LET hosts == SpecOf(c).ControlPlanes \o SpecOf(c).Workers IN
       \E k \in 0..Len(hosts) :
          /\ \A i \in 1..k : TRUE \in RemoteOutcomes(hosts[i])
          /\ calls' = [calls EXCEPT ![c] = @ \o
                 [i \in 1..Min(k + 1, Len(hosts)) |-> Call("prepareHost", hosts[i], i <= k)]]
          /\ IF k < Len(hosts)
             THEN logError(task, c, "Failed to prepare hosts", "done")
             ELSE logEvent(task, c, "info", SpecOf(c).ControlPlanes[1].Address, "bootstrap",
                           "Bootstrapping control plane", "bootstrap")
    /\ UNCHANGED <<clusters, nodes, jobs, req, broadcast, hub, clients, conn, recv>>

    /\ UNCHANGED auxVars
\* lines 386-397: BootstrapControlPlane on the first control plane; on success
\* the credentials are written to the cluster row
ProvBootstrap(c) ==
    /\ c \in Created
    /\ task[c].pc = "bootstrap"
    /\ LET host == SpecOf(c).ControlPlanes[1] IN
       \E ok \in RemoteOutcomes(host) :
          /\ calls' = [calls EXCEPT ![c] = Append(@, Call("BootstrapControlPlane", host, ok))]
          /\ IF ok
             THEN \E result \in BootstrapResults :
                    /\ clusters' = UpdateCredentials(clusters, c, result)
                    /\ task' = [task EXCEPT ![c].pc = "cni_log", ![c].result = result]
                    /\ UNCHANGED events
             ELSE /\ logError(task, c, "Failed to bootstrap control plane", "done")
                  /\ UNCHANGED clusters
    /\ UNCHANGED <<nodes, jobs, req, broadcast, hub, clients, conn, recv>>

    /\ UNCHANGED auxVars
\* line 400: the cni event
ProvCniLog(c) ==
    /\ c \in Created
    /\ task[c].pc = "cni_log"
    /\ logEvent(task, c, "info", SpecOf(c).ControlPlanes[1].Address, "cni", "Installing CNI", "cni")
    /\ UNCHANGED <<clusters, nodes, jobs, req, calls, broadcast, hub, clients, conn, recv>>

    /\ UNCHANGED auxVars
\* lines 401-404: InstallCNI; a failure is logged with logError and the
\* goroutine goes on
ProvInstallCNI(c) ==
    /\ c \in Created
    /\ task[c].pc = "cni"
    /\ LET host == SpecOf(c).ControlPlanes[1] IN
       \E ok \in InstallCNIOutcomes(SpecOf(c).CNI, host) :
          /\ calls' = [calls EXCEPT ![c] = Append(@, Call("InstallCNI", host, ok))]
          /\ IF ok
             THEN /\ task' = [task EXCEPT ![c].pc = "join"]
                  /\ UNCHANGED events
             ELSE logError(task, c, "Failed to install CNI", "join")
    /\ UNCHANGED <<clusters, nodes, jobs, req, broadcast, hub, clients, conn, recv>>

    /\ UNCHANGED auxVars
\* lines 409 and 419: the join event of the next host of the two loops
ProvJoinLog(c) ==
    /\ c \in Created
    /\ task[c].pc = "join"
    /\ task[c].idx <= Len(JoinList(c))
    /\ LET j == JoinList(c)[task[c].idx] IN
       logEvent(task, c, "info", j.host.Address, "join",
                IF j.role = "worker" THEN "Joining worker" ELSE "Joining control plane",
                "join_run")
    /\ UNCHANGED <<clusters, nodes, jobs, req, calls, broadcast, hub, clients, conn, recv>>

    /\ UNCHANGED auxVars
\* lines 411-414 and 421-424: JoinControlPlane or JoinWorker; a failure is
\* logged with logError and the loop goes on
ProvJoinRun(c) ==
    /\ c \in Created
    /\ task[c].pc = "join_run"
    /\ LET j == JoinList(c)[task[c].idx] IN
       \E ok \in RemoteOutcomes(j.host) :
          /\ calls' = [calls EXCEPT ![c] = Append(@,
                 Call(IF j.role = "worker" THEN "JoinWorker" ELSE "JoinControlPlane",
                      j.host, ok))]
          /\ IF ok
             THEN /\ task' = [task EXCEPT ![c].pc = "join", ![c].idx = @ + 1]
                  /\ UNCHANGED events
             ELSE logError([task EXCEPT ![c].idx = @ + 1], c,
                           IF j.role = "worker" THEN "Failed to join worker"
                           ELSE "Failed to join control plane", "join")
    /\ UNCHANGED <<clusters, nodes, jobs, req, broadcast, hub, clients, conn, recv>>

    /\ UNCHANGED auxVars
\* line 428: status -> ready
ProvReady(c) ==
    /\ c \in Created
    /\ task[c].pc = "join"
    /\ task[c].idx > Len(JoinList(c))
    /\ clusters' = UpdateStatus(clusters, c, "ready")
    /\ task' = [task EXCEPT ![c].pc = "complete"]
    /\ UNCHANGED <<nodes, jobs, events, req, calls, broadcast, hub, clients, conn, recv>>

    /\ UNCHANGED auxVars
\* line 429: the complete event
ProvComplete(c) ==
    /\ c \in Created
    /\ task[c].pc = "complete"
    /\ logEvent(task, c, "info", Localhost, "complete", "Cluster provisioned successfully", "done")
    /\ UNCHANGED <<clusters, nodes, jobs, req, calls, broadcast, hub, clients, conn, recv>>

    /\ UNCHANGED auxVars
(***************************************************************************)
(* internal/api/websocket.go: the hub.                                     *)
(***************************************************************************)
\* go Hub.Run(): the goroutine is started by the program that mounts the API
StartHub ==
    /\ ~hub.started
    /\ hub' = [hub EXCEPT !.started = TRUE]
    /\ UNCHANGED <<orchVars, broadcast, connVars>>

    /\ UNCHANGED auxVars
HubIdle == hub.started /\ hub.pc = "idle"

\* the subscribers of cluster id c in the map, none when the key is absent
ClientsOf(m, c) == IF c \in DOMAIN m THEN m[c] ELSE {}

\* case client := <-h.register
Register(m, k, c) ==
    [x \in DOMAIN m \cup {c} |-> IF x = c THEN ClientsOf(m, c) \cup {k} ELSE m[x]]

\* the unregister case as it would be without the delete of an emptied key
UnregisterKeepKey(m, k, c) ==
    IF k \notin ClientsOf(m, c) THEN m ELSE [m EXCEPT ![c] = @ \ {k}]

\* case client := <-h.unregister, the map: the connection is removed when
\* present, and the key with it when the set becomes empty
Unregister(m, k, c) ==
    IF k \notin ClientsOf(m, c) THEN m
    ELSE IF m[c] = {k} THEN [x \in DOMAIN m \ {c} |-> m[x]]
    ELSE [m EXCEPT ![c] = @ \ {k}]

\* whether a write to connection k fails: its peer is gone or it was closed
WriteFails(k) == conn[k].broken \/ conn[k].closed

\* HandleWebSocket up to the send on Hub.register, for path id c.  Connections
\* are interchangeable: they are numbered in the order they are upgraded.
HandleWebSocket(k, c) ==
    /\ conn[k].state = "new"
    /\ \A j \in 1..(k - 1) : conn[j].state # "new"
    /\ conn' = [conn EXCEPT ![k].state = "registering", ![k].clusterID = c]
    /\ UNCHANGED <<orchVars, broadcast, hub, clients, recv>>

    /\ UNCHANGED auxVars
\* Hub.Run receives from register: the handler's send returns, and it starts
\* the history goroutine and the ping goroutine and enters its read loop
HubRegister(k) ==
    /\ HubIdle
    /\ conn[k].state = "registering"
    /\ clients' = Register(clients, k, conn[k].clusterID)
    /\ conn' = [conn EXCEPT ![k].state = "reading", ![k].hist = "query", ![k].ping = "run"]
    /\ UNCHANGED <<orchVars, broadcast, hub, recv>>

    /\ UNCHANGED auxVars
\* the history query: Where(cluster_id).Order("timestamp desc").Limit(50)
RecentEvents(evs, c) ==
    LET mine == SelectSeq(evs, LAMBDA e : e.cluster_id = c)
        desc == Reverse(mine)
    IN  SubSeq(desc, 1, Min(HistoryLimit, Len(desc)))

\* the history goroutine runs its query; buf is what is left to send, in the
\* order of the loop (the result reversed)
HistoryQuery(k) ==
    /\ conn[k].hist = "query"
    /\ LET found == Reverse(RecentEvents(events, conn[k].clusterID)) IN
       conn' = [conn EXCEPT ![k].buf = found,
                            ![k].hist = IF found = <<>> THEN "done" ELSE "replay"]
    /\ UNCHANGED <<orchVars, broadcast, hub, clients, recv>>

    /\ UNCHANGED auxVars
\* conn.WriteJSON(events[i]) of the history goroutine; an error is ignored
HistoryWrite(k) ==
    /\ conn[k].hist = "replay"
    /\ recv' = IF WriteFails(k) THEN recv
               ELSE [recv EXCEPT ![k] = Append(@, [via |-> "history", data |-> Head(conn[k].buf)])]
    /\ conn' = [conn EXCEPT ![k].buf = Tail(@),
                            ![k].hist = IF Len(conn[k].buf) = 1 THEN "done" ELSE "replay"]
    /\ UNCHANGED <<orchVars, broadcast, hub, clients>>

    /\ UNCHANGED auxVars
\* the peer of connection k goes away and conn.ReadMessage fails: the read
\* loop goes to its send on Hub.unregister
ReadError(k) ==
    /\ conn[k].state = "reading"
    /\ conn' = [conn EXCEPT ![k].state = "unregistering", ![k].broken = TRUE]
    /\ UNCHANGED <<orchVars, broadcast, hub, clients, recv>>

    /\ UNCHANGED auxVars
\* the ping write fails: the ping goroutine goes to its send on Hub.unregister
PingError(k) ==
    /\ conn[k].ping = "run"
    /\ WriteFails(k)
    /\ conn' = [conn EXCEPT ![k].ping = "unregistering"]
    /\ UNCHANGED <<orchVars, broadcast, hub, clients, recv>>

    /\ UNCHANGED auxVars
\* Hub.Run receives from unregister what the read loop (from = "read") or the
\* ping goroutine (from = "ping") of k sends; the sender ends
HubUnregister(k, from) ==
    /\ HubIdle
    /\ IF from = "read" THEN conn[k].state = "unregistering"
       ELSE conn[k].ping = "unregistering"
    /\ clients' = Unregister(clients, k, conn[k].clusterID)
    /\ conn' = [conn EXCEPT
          ![k].closed = @ \/ k \in ClientsOf(clients, conn[k].clusterID),
          ![k].state = IF from = "read" THEN "returned" ELSE @,
          ![k].ping = IF from = "ping" THEN "returned" ELSE @]
    /\ UNCHANGED <<orchVars, broadcast, hub, recv>>

    /\ UNCHANGED auxVars
\* the dispatch as it would be if it wrote to every registered connection
RecipientsAll(m, msg) == UNION {m[c] : c \in DOMAIN m}

\* the connections a broadcast message is written to: h.clients[clusterID]
Recipients(m, msg) == ClientsOf(m, msg.clusterID)

\* Hub.Run receives from broadcast and reads the subscriber set
HubBroadcast ==
    /\ HubIdle
    /\ broadcast # <<>>
    /\ broadcast' = Tail(broadcast)
    /\ hub' = IF Recipients(clients, Head(broadcast)) = {}
              THEN hub
              ELSE [hub EXCEPT !.msg = Head(broadcast),
                               !.todo = Recipients(clients, Head(broadcast)),
                               !.pc = "dispatch"]
    /\ UNCHANGED <<orchVars, connVars>>

    /\ UNCHANGED auxVars
\* one iteration of `for conn := range clients` (map order: any): WriteJSON;
\* on an error the hub goroutine itself sends on Hub.unregister, the
\* unbuffered channel only it receives from
HubWrite(k) ==
    /\ hub.started
    /\ hub.pc = "dispatch"
    /\ k \in hub.todo
    /\ IF WriteFails(k)
       THEN /\ hub' = [hub EXCEPT !.pc = "unregister_send"]
            /\ UNCHANGED recv
       ELSE /\ recv' = [recv EXCEPT ![k] = Append(@, [via |-> "live", data |-> hub.msg.data])]
            /\ hub' = IF hub.todo = {k}
                      THEN [hub EXCEPT !.todo = {}, !.msg = NoMessage, !.pc = "idle"]
                      ELSE [hub EXCEPT !.todo = @ \ {k}]
    /\ UNCHANGED <<orchVars, broadcast, clients, conn>>

    /\ UNCHANGED auxVars
(***************************************************************************)
(* The program.                                                            *)
(***************************************************************************)
Start ==
    /\ clusters = <<>>
    /\ nodes = <<>>
    /\ jobs = <<>>
    /\ events = <<>>
    /\ req = <<>>
    /\ task = <<>>
    /\ calls = <<>>
    /\ broadcast = <<>>
    /\ hub = [started |-> FALSE, pc |-> "idle", msg |-> NoMessage,
              todo |-> {}]
    /\ clients = [x \in {} |-> {}]
    /\ repo = "up"
    /\ resp = <<>>
    /\ out = <<>>
    /\ process = "serving"
    /\ conn = [k \in Conns |-> [state |-> "new", clusterID |-> 0, hist |-> "none",
                                buf |-> <<>>, ping |-> "none", broken |-> FALSE,
                                closed |-> FALSE]]
    /\ recv = [k \in Conns |-> <<>>]

Init == Start /\ arg = <<>> /\ session = NoSession /\ prov = NoOperation

Provision(c) ==
    \/ ProvStart(c)
    \/ ProvValidate(c)
    \/ ProvBroadcast(c)
    \/ ProvSetFailed(c)
    \/ ProvPrepare(c)
    \/ ProvBootstrap(c)
    \/ ProvCniLog(c)
    \/ ProvInstallCNI(c)
    \/ ProvJoinLog(c)
    \/ ProvJoinRun(c)
    \/ ProvReady(c)
    \/ ProvComplete(c)

\* the orchestrator: requests, provisioning goroutines, and the hub draining
\* its broadcast channel with no subscriber connected
Next ==
    \/ /\ Len(clusters) < NumClusters
       /\ \E r \in Requests(Len(clusters) + 1) : CreateCluster(r)
    \/ \E c \in ClusterIDs : CreateClusterRespond(c)
    \/ \E c \in ClusterIDs : DeleteCluster(c)
    \/ \E c \in ClusterIDs : Provision(c)
    \/ StartHub
    \/ HubBroadcast

Spec == Init /\ [][Next]_vars

\* the repository stops accepting statements (the database is locked, its
\* file system is full, the connection is lost), and accepts them again
RepositoryFails ==
    /\ repo = "up"
    /\ repo' = "down"
    /\ UNCHANGED <<orchVars, broadcast, hub, connVars, resp, arg, out, session, process, prov>>

RepositoryRecovers ==
    /\ repo = "down"
    /\ repo' = "up"
    /\ UNCHANGED <<orchVars, broadcast, hub, connVars, resp, arg, out, session, process, prov>>

\* the orchestrator over a repository that can fail
NextRepo ==
    \/ /\ Len(clusters) < NumClusters
       /\ \E r \in Requests(Len(clusters) + 1) : CreateCluster(r)
    \/ \E c \in ClusterIDs : Provision(c)
    \/ StartHub
    \/ HubBroadcast
    \/ RepositoryFails
    \/ RepositoryRecovers

SpecRepo == Init /\ [][NextRepo]_vars

(***************************************************************************)
(* Properties of the orchestrator, checked under Spec.                     *)
(***************************************************************************)
Done(c) == task[c].pc = "done"

\* the operations of calls[c] named op on the host at address a
Attempts(c, op, a) ==
    Cardinality({i \in DOMAIN calls[c] : calls[c][i].op = op /\ calls[c][i].host = a})

FailedCalls(c, ops) == {i \in DOMAIN calls[c] : calls[c][i].op \in ops /\ ~calls[c][i].ok}

Bootstrapped(c) ==
    \E i \in DOMAIN calls[c] : calls[c][i].op = "BootstrapControlPlane" /\ calls[c][i].ok

\* the joins the request asks for, read from the request itself
JoinTargets(c) ==
    { <<"JoinControlPlane", req[c].ControlPlanes[i].Address>> :
        i \in 2..Len(req[c].ControlPlanes) }
    \cup { <<"JoinWorker", req[c].Workers[j].Address>> : j \in 1..Len(req[c].Workers) }

JoinOps == {"JoinControlPlane", "JoinWorker"}

EventsOf(c) == {i \in DOMAIN events : events[i].cluster_id = c}

LegalEdges ==
    { <<"pending", "provisioning">>, <<"provisioning", "ready">>,
      <<"provisioning", "failed">> }

\* C1 as stated: every change of a cluster's status follows one of the edges
\* pending -> provisioning, provisioning -> ready, provisioning -> failed; in
\* particular failed is never followed by ready.
C1_StatusFollowsEdges ==
    [][\A c \in Created :
         clusters'[c].Status # clusters[c].Status
            => <<clusters[c].Status, clusters'[c].Status>> \in LegalEdges]_vars

\* the lookup, the validation, the preparation or the bootstrap of c failed
FatalFailure(c) ==
    \/ /\ task[c].pc \notin {"start", "validate"}
       /\ ~GetProvisioner(clusters[c].Provider) \/ Validate(req[c]).err # ""
    \/ FailedCalls(c, {"prepareHost", "BootstrapControlPlane"}) # {}

\* C2: after a failed provisioner lookup, ValidateSpec, PrepareHosts or
\* BootstrapControlPlane the goroutine runs no later step: the failed call is
\* its last call, a prepare failure is followed by no bootstrap, no InstallCNI
\* and no join is called, no credentials are written, no cni or complete event
\* is recorded, and when the goroutine has ended the status of the (not
\* deleted) cluster is failed.
C2_FatalFailureStops ==
    \A c \in Created :
       FatalFailure(c) =>
          /\ task[c].pc \in {"broadcast", "setfailed", "done"}
          /\ \A i \in FailedCalls(c, {"prepareHost", "BootstrapControlPlane"}) :
                i = Len(calls[c])
          /\ FailedCalls(c, {"prepareHost"}) # {}
                => \A i \in DOMAIN calls[c] : calls[c][i].op = "prepareHost"
          /\ \A i \in DOMAIN calls[c] : calls[c][i].op \notin JoinOps \cup {"InstallCNI"}
          /\ clusters[c].Kubeconfig = ""
          /\ clusters[c].JoinCommand = ""
          /\ clusters[c].CertificateKey = ""
          /\ \A i \in EventsOf(c) : events[i].step \notin {"cni", "complete"}
          /\ Done(c) /\ ~clusters[c].Deleted => clusters[c].Status = "failed"

\* a goroutine that ended after its bootstrap failed with every host prepared
C2_Witness ==
    \E c \in Created :
       /\ Done(c)
       /\ ~clusters[c].Deleted
       /\ clusters[c].Status = "failed"
       /\ FailedCalls(c, {"BootstrapControlPlane"}) # {}
       /\ Len(calls[c]) > 2

\* C3: once the bootstrap has succeeded no host is joined twice and no host
\* outside the request is joined, and when the goroutine has ended every
\* control plane after the first and every worker has had exactly one join
\* attempt, failed joins of others notwithstanding, and the status of the (not
\* deleted) cluster is ready.
C3_EveryNodeJoinedOnce ==
    \A c \in Created :
       Bootstrapped(c) =>
          /\ \A t \in JoinTargets(c) : Attempts(c, t[1], t[2]) <= 1
          /\ \A i \in DOMAIN calls[c] :
                calls[c][i].op \in JoinOps
                   => <<calls[c][i].op, calls[c][i].host>> \in JoinTargets(c)
          /\ Done(c) =>
                /\ \A t \in JoinTargets(c) : Attempts(c, t[1], t[2]) = 1
                /\ ~clusters[c].Deleted => clusters[c].Status = "ready"

\* a cluster that ended ready although both of its joins failed
C3_Witness ==
    \E c \in Created :
       /\ Done(c)
       /\ Bootstrapped(c)
       /\ clusters[c].Status = "ready"
       /\ Cardinality(JoinTargets(c)) = 2
       /\ Cardinality(FailedCalls(c, JoinOps)) = 2

\* C4: when InstallCNI fails the failure is recorded as an error event of the
\* cluster, and when the goroutine has ended every join of the request was
\* attempted after the failure and the status of the (not deleted) cluster is
\* ready.
C4_CNIFailureDoesNotAbort ==
    \A c \in Created :
       \A f \in FailedCalls(c, {"InstallCNI"}) :
          /\ \E i \in EventsOf(c) :
                /\ events[i].level = "error"
                /\ events[i].message = <<"Failed to install CNI", "err">>
          /\ Done(c) =>
                /\ \A t \in JoinTargets(c) :
                      \E i \in DOMAIN calls[c] :
                         i > f /\ calls[c][i].op = t[1] /\ calls[c][i].host = t[2]
                /\ ~clusters[c].Deleted => clusters[c].Status = "ready"

\* a cluster with hosts to join that ended ready after InstallCNI refused cilium
C4_Witness ==
    \E c \in Created :
       /\ Done(c)
       /\ FailedCalls(c, {"InstallCNI"}) # {}
       /\ req[c].CNI = "cilium"
       /\ JoinTargets(c) # {}
       /\ clusters[c].Status = "ready"

\* C5 as stated: for every failed JoinWorker the cluster has an error-level
\* event whose step is join and whose host is the address of that worker.
C5_WorkerJoinErrorEvent ==
    \A c \in Created :
       \A f \in FailedCalls(c, {"JoinWorker"}) :
          \E i \in EventsOf(c) :
             /\ events[i].level = "error"
             /\ events[i].step = "join"
             /\ events[i].host = calls[c][f].host

\* the messages handed to Hub.broadcast that are still with the hub
InHub == {broadcast[i] : i \in DOMAIN broadcast} \cup
         (IF hub.pc = "idle" THEN {} ELSE {hub.msg})

\* C12 as stated: every message handed to the hub carries an event that is in
\* the persisted history of its cluster, with the same payload, also when the
\* insert of the event failed.
C12_BroadcastIsPersisted ==
    \A m \in InHub : \E i \in EventsOf(m.clusterID) : events[i] = m.data

\* the remote operations of a run in which nothing fatal fails, read from the
\* request: every host prepared (control planes, then workers), the bootstrap
\* and InstallCNI on the first control plane, the other control planes joined
\* in order, then the workers
ExpectedCalls(c) ==
    LET cps == req[c].ControlPlanes
        ws == req[c].Workers
    IN  [i \in 1..Len(cps) |-> <<"prepareHost", cps[i].Address>>]
        \o [j \in 1..Len(ws) |-> <<"prepareHost", ws[j].Address>>]
        \o << <<"BootstrapControlPlane", cps[1].Address>>, <<"InstallCNI", cps[1].Address>> >>
        \o [i \in 1..(Len(cps) - 1) |-> <<"JoinControlPlane", cps[i + 1].Address>>]
        \o [j \in 1..Len(ws) |-> <<"JoinWorker", ws[j].Address>>]

\* the steps of the info events of such a run
ExpectedSteps(c) ==
    <<"prepare", "bootstrap", "cni">>
    \o [i \in 1..(Len(req[c].ControlPlanes) - 1 + Len(req[c].Workers)) |-> "join"]
    \o <<"complete">>

IsPrefix(s, t) == Len(s) <= Len(t) /\ \A i \in DOMAIN s : s[i] = t[i]

InfoSteps(c) ==
    LET mine == SelectSeq(events, LAMBDA e : e.cluster_id = c /\ e.level = "info")
    IN  [i \in DOMAIN mine |-> mine[i].step]

C14_ReadyHasKubeconfig ==
    \A c \in Created : clusters[c].Status = "ready" => clusters[c].Kubeconfig # ""

\* C15 as stated: CreateCluster leaves the nodes of the cluster provisioning
\* and its job pending, and the status in the view it returns is pending.
C15_CreateReturnsPending ==
    \A c \in Created :
       /\ \A i \in DOMAIN nodes : nodes[i].ClusterID = c => nodes[i].Status = "provisioning"
       /\ \E i \in DOMAIN jobs : jobs[i].ClusterID = c /\ jobs[i].Status = "pending"
       /\ resp[c] \in {"", "pending"}

JobsOf(c) == {i \in DOMAIN jobs : jobs[i].ClusterID = c}

\* C16 as stated: while a cluster that is not deleted is provisioning its job
\* is running, when it is failed its job is failed, and when it is ready or
\* failed its job is neither pending nor running.
C16_JobFollowsTask ==
    \A c \in Created :
       ~clusters[c].Deleted =>
          \A i \in JobsOf(c) :
             /\ clusters[c].Status = "provisioning" => jobs[i].Status = "running"
             /\ clusters[c].Status = "failed" => jobs[i].Status = "failed"
             /\ clusters[c].Status \in {"ready", "failed"}
                   => jobs[i].Status \notin {"pending", "running"}

\* the create requests of SpecCreate: no name, a name in use or a fresh one,
\* and one control plane that cannot be reached or has no key
CreateRequests(id) ==
    { CreateClusterRequest(name, 1, 0, "", v) :
        name \in RequestNames(id), v \in {"blank", "nokey"} }

\* concurrent create requests: the handlers, the goroutines they start (the
\* positions those requests reach), deletions, and the hub draining its channel
NextCreate ==
    \/ /\ Len(clusters) < HubClusters
       /\ \E r \in CreateRequests(Len(clusters) + 1) : CreateCluster(r)
    \/ \E c \in ClusterIDs : CreateClusterRespond(c)
    \/ \E c \in ClusterIDs : DeleteCluster(c)
    \/ \E c \in ClusterIDs : ProvStart(c)
    \/ \E c \in ClusterIDs : ProvValidate(c)
    \/ \E c \in ClusterIDs : ProvBroadcast(c)
    \/ \E c \in ClusterIDs : ProvSetFailed(c)
    \/ \E c \in ClusterIDs : ProvPrepare(c)
    \/ StartHub
    \/ HubBroadcast

SpecCreate == Init /\ [][NextCreate]_vars

\* C17: every cluster has at most one job that is pending or running, and one
\* provisioning goroutine was started per cluster row: the rows have distinct
\* ids and distinct names, and there are as many goroutines as rows.
C17_OneJobOneTask ==
    /\ \A c \in Created :
          Cardinality({i \in JobsOf(c) : jobs[i].Status \in {"pending", "running"}}) <= 1
    /\ Len(task) = Len(clusters)
    /\ \A c, d \in Created :
          c # d => clusters[c].ID # clusters[d].ID /\ clusters[c].Name # clusters[d].Name

\* two clusters whose goroutines are both running, each with its pending job
C17_Witness ==
    /\ Len(clusters) = 2
    /\ \A c \in Created :
          /\ task[c].pc \notin {"start", "done"}
          /\ \E i \in JobsOf(c) : jobs[i].Status = "pending"

(***************************************************************************)
(* ValidateSpec as a function, checked under SpecValidate.                 *)
(***************************************************************************)
\* applications of the function to one argument
MaxApply == 2

\* the specifications ValidateSpec is applied to: those of the create
\* requests, with the version left out or given
ValidateInputs ==
    { [r EXCEPT !.K8sVersion = v] : r \in Requests(1), v \in {"", "1.29.0"} }

\* ValidateSpec applied to the argument, then to what it left behind
ApplyValidate ==
    /\ arg # <<>>
    /\ Len(out) < MaxApply
    /\ out' = Append(out, Validate(IF out = <<>> THEN arg ELSE out[Len(out)].spec))
    /\ UNCHANGED <<orchVars, broadcast, hub, connVars, repo, resp, arg, session, process, prov>>

InitValidate == Start /\ arg \in ValidateInputs /\ session = NoSession /\ prov = NoOperation

SpecValidate == InitValidate /\ [][ApplyValidate]_vars

\* C18: ValidateSpec applied to the specification a first application left
\* behind leaves the same specification and returns the same error or
\* acceptance.
C18_ValidateIdempotent ==
    \A i \in 2..Len(out) : out[i] = out[1]

\* a second application to a specification the first accepted and completed
\* with defaults
C18_Witness ==
    /\ Len(out) = 2
    /\ out[1].err = ""
    /\ out[1].spec # arg

\* C19 as stated: once ValidateSpec has accepted the specification of a run,
\* every host the run hands to the provisioner has a user, a port other than
\* 0 and a host name.
C19_HostsNormalized ==
    \A c \in Created :
       task[c].pc \notin {"start", "validate"} /\ Validate(req[c]).err = "" =>
          LET hosts == SpecOf(c).ControlPlanes \o SpecOf(c).Workers IN
          \A i \in DOMAIN hosts :
             /\ hosts[i].User # ""
             /\ hosts[i].Port # 0
             /\ hosts[i].Hostname # Empty

NoKey(x) ==
    \E i \in DOMAIN (x.ControlPlanes \o x.Workers) :
       /\ (x.ControlPlanes \o x.Workers)[i].SSHKey = ""
       /\ (x.ControlPlanes \o x.Workers)[i].SSHKeyPath = ""

\* C20: ValidateSpec rejects every specification without a control plane and
\* every specification with a host that has neither a key nor a key path; a
\* run whose specification it rejected calls no remote operation, and when
\* the run has ended the status of the (not deleted) cluster is failed.
C20_RejectedSpecContactsNoHost ==
    /\ \A x \in ValidateInputs :
          Len(x.ControlPlanes) = 0 \/ NoKey(x) => Validate(x).err # ""
    /\ \A c \in Created :
          /\ NoKey(req[c]) => Validate(req[c]).err # ""
          /\ Validate(req[c]).err # "" /\ task[c].pc \notin {"start", "validate"} =>
                /\ calls[c] = <<>>
                /\ Done(c) /\ ~clusters[c].Deleted => clusters[c].Status = "failed"

\* a run over two control planes and a worker without a key that ended failed
C20_Witness ==
    \E c \in Created :
       /\ Done(c)
       /\ NoKey(req[c])
       /\ Len(req[c].ControlPlanes) = 2
       /\ Len(req[c].Workers) = 1
       /\ calls[c] = <<>>
       /\ clusters[c].Status = "failed"

(***************************************************************************)
(* The views the API serializes.                                           *)
(***************************************************************************)
\* json.Marshal of a db.Cluster as it would be if join_command carried a name
\* instead of json:"-"
ClusterViewWithJoinCommand(cl, ns, evs) ==
    [ id |-> cl.ID, name |-> cl.Name, cni |-> cl.CNI, provider |-> cl.Provider,
      status |-> cl.Status, join_command |-> cl.JoinCommand,
      nodes |-> SelectSeq(ns, LAMBDA n : n.ClusterID = cl.ID /\ ~n.Deleted),
      events |-> evs ]

\* json.Marshal of a db.Cluster with its preloaded nodes ns and events evs:
\* Kubeconfig, JoinCommand, CertificateKey and DeletedAt are tagged json:"-"
ClusterView(cl, ns, evs) ==
    [ id |-> cl.ID, name |-> cl.Name, cni |-> cl.CNI, provider |-> cl.Provider,
      status |-> cl.Status,
      nodes |-> SelectSeq(ns, LAMBDA n : n.ClusterID = cl.ID /\ ~n.Deleted),
      events |-> evs ]

\* ListClusters: Preload("Nodes").Find, which skips tombstoned rows
ListClusters(cls, ns) ==
    LET live == SelectSeq(cls, LAMBDA cl : ~cl.Deleted)
    IN  [i \in DOMAIN live |-> ClusterView(live[i], ns, <<>>)]

\* GetCluster: Preload("Nodes").Preload("Events").First; <<>> stands for 404
GetCluster(cls, ns, evs, c) ==
    IF c \notin DOMAIN cls \/ cls[c].Deleted THEN <<>>
    ELSE ClusterView(cls[c], ns, SelectSeq(evs, LAMBDA e : e.cluster_id = c))

\* the values the three secret columns of a cluster can hold
Secrets ==
    [ Kubeconfig : {"", "admin.conf", "other.conf"},
      JoinCommand : {"", "kubeadm join", "other join"},
      CertificateKey : {"", "KEY", "OTHER"} ]

\* the clusters table with the secrets of row c replaced by s
WithSecrets(cls, c, s) ==
    [cls EXCEPT ![c].Kubeconfig = s.Kubeconfig,
                ![c].JoinCommand = s.JoinCommand,
                ![c].CertificateKey = s.CertificateKey]

\* C21: in every state, replacing the kubeconfig, join command and certificate
\* key of any cluster by any other values changes neither the list view, nor
\* the view of any cluster; the frames of the event stream are the persisted
\* events, which hold no column of the cluster.
C21_ViewsIndependentOfSecrets ==
    \A c \in Created :
       \A s \in Secrets :
          /\ ListClusters(WithSecrets(clusters, c, s), nodes) = ListClusters(clusters, nodes)
          /\ \A d \in ClusterIDs :
                GetCluster(WithSecrets(clusters, c, s), nodes, events, d)
                   = GetCluster(clusters, nodes, events, d)

\* a listed cluster that holds the three secrets of a bootstrap
C21_Witness ==
    \E c \in Created :
       /\ ~clusters[c].Deleted
       /\ clusters[c].Kubeconfig # ""
       /\ clusters[c].JoinCommand # ""
       /\ clusters[c].CertificateKey # ""
       /\ ListClusters(clusters, nodes) # <<>>

(***************************************************************************)
(* The extractors of the bootstrap output, checked under SpecExtract.  A   *)
(* text is a sequence of lines and a line the sequence of its              *)
(* whitespace-separated words: TrimSpace and the single spaces the code    *)
(* inserts do not change the words.                                        *)
(***************************************************************************)
\* lines of a bootstrap output
MaxLines == 4

\* the line-continuation marker that ends a line of a command
Marker == "\\"

IsFlag(w) ==
    w \in {"--token", "--discovery-token-ca-cert-hash", "--control-plane", "--certificate-key"}

\* the worker join invocation on one line, as kubeadm prints it over two
JoinOneLine ==
    <<"kubeadm", "join", "10.0.0.1:6443", "--token", "T",
      "--discovery-token-ca-cert-hash", "sha256:H">>
JoinFirstLine == <<"kubeadm", "join", "10.0.0.1:6443", "--token", "T", Marker>>
JoinSecondLine == <<"--discovery-token-ca-cert-hash", "sha256:H">>

OutputLines ==
    { JoinOneLine, JoinFirstLine, JoinSecondLine,
      <<"--discovery-token-ca-cert-hash", "sha256:H", Marker>>,
      <<"--control-plane", "--certificate-key", "K">>,
      <<"--control-plane", "--certificate-key">>,
      <<"Your", "control-plane", "has", "initialized">>,
      <<>> }

\* the bootstrap outputs the extractors are applied to
BootstrapOutputs == UNION { [1..n -> OutputLines] : n \in 0..MaxLines }

\* strings.Contains(line, "kubeadm join")
ContainsJoin(line) ==
    \E i \in 1..(Len(line) - 1) : line[i] = "kubeadm" /\ line[i + 1] = "join"

\* the inner loop of extractJoinCommand from line j, at most up to line last:
\* a line that starts with "--" or with the marker is appended (a leading
\* marker trimmed), any other line ends the loop
RECURSIVE Continuation(_, _, _)
Continuation(lines, j, last) ==
    IF j > last \/ j > Len(lines) THEN <<>>
    ELSE IF lines[j] # <<>> /\ (IsFlag(lines[j][1]) \/ lines[j][1] = Marker)
    THEN (IF lines[j][1] = Marker THEN Tail(lines[j]) ELSE lines[j])
         \o Continuation(lines, j + 1, last)
    ELSE <<>>

\* extractJoinCommand: the first line that contains "kubeadm join", with up to
\* four continuation lines appended; <<>> when there is none
extractJoinCommand(output) ==
    IF \A i \in DOMAIN output : ~ContainsJoin(output[i]) THEN <<>>
    ELSE LET i == CHOOSE i \in DOMAIN output :
                     /\ ContainsJoin(output[i])
                     /\ \A k \in 1..(i - 1) : ~ContainsJoin(output[k])
         IN  output[i] \o Continuation(output, i + 1, i + 4)

ApplyExtractJoinCommand ==
    /\ arg \in BootstrapOutputs
    /\ \A i \in DOMAIN out : out[i].fn # "extractJoinCommand"
    /\ out' = Append(out, [fn |-> "extractJoinCommand", val |-> extractJoinCommand(arg)])
    /\ UNCHANGED <<orchVars, broadcast, hub, connVars, repo, resp, arg, session, process, prov>>

CertificateKeyFlag == "--certificate-key"

HasKeyFlag(line) == \E i \in DOMAIN line : line[i] = CertificateKeyFlag

\* the run-time panic of an index out of range
Panic == <<"panic: runtime error: index out of range [0] with length 0">>

\* extractCertificateKey: in the first line that contains the flag, the first
\* field of the text between the first flag and the next; strings.Fields of
\* an empty text has no element 0
extractCertificateKey(output) ==
    IF \A i \in DOMAIN output : ~HasKeyFlag(output[i]) THEN <<>>
    ELSE LET line == output[CHOOSE i \in DOMAIN output :
                              /\ HasKeyFlag(output[i])
                              /\ \A k \in 1..(i - 1) : ~HasKeyFlag(output[k])]
             p == CHOOSE i \in DOMAIN line :
                     /\ line[i] = CertificateKeyFlag
                     /\ \A k \in 1..(i - 1) : line[k] # CertificateKeyFlag
         IN  IF p = Len(line) \/ line[p + 1] = CertificateKeyFlag
             THEN Panic
             ELSE << line[p + 1] >>

ApplyExtractCertificateKey ==
    /\ arg \in BootstrapOutputs
    /\ \A i \in DOMAIN out : out[i].fn # "extractCertificateKey"
    /\ out' = Append(out, [fn |-> "extractCertificateKey", val |-> extractCertificateKey(arg)])
    /\ UNCHANGED <<orchVars, broadcast, hub, connVars, repo, resp, arg, session, process, prov>>

InitExtract == Start /\ arg \in BootstrapOutputs /\ session = NoSession /\ prov = NoOperation

NextExtract ==
    \/ ApplyExtractJoinCommand
    \/ ApplyExtractCertificateKey

SpecExtract == InitExtract /\ [][NextExtract]_vars

\* the join invocation of the output is split over two lines, the first
\* ending with the marker
SplitJoin(output) ==
    \E i \in 1..(Len(output) - 1) :
       /\ output[i] = JoinFirstLine
       /\ output[i + 1] = JoinSecondLine
       /\ \A k \in 1..(i - 1) : ~ContainsJoin(output[k])

\* C22 as stated: for an output whose join invocation is split over two lines
\* with the marker at the end of the first, extractJoinCommand returns the
\* invocation as written on one line, without a marker.
C22_SplitJoinCommandJoined ==
    \A i \in DOMAIN out :
       out[i].fn = "extractJoinCommand" /\ SplitJoin(arg) =>
          /\ out[i].val = JoinOneLine
          /\ \A k \in DOMAIN out[i].val : out[i].val[k] # Marker

\* the join invocation that starts at line i of the output, with its
\* continuation lines
Invocation(output, i) == output[i] \o Continuation(output, i + 1, i + 4)

Words(cmd) == {cmd[i] : i \in DOMAIN cmd}

JoinsAsControlPlane(cmd) ==
    "--control-plane" \in Words(cmd) \/ CertificateKeyFlag \in Words(cmd)

\* the output holds a control-plane join invocation and a worker join
\* invocation
HasBothInvocations(output) ==
    \E i, j \in DOMAIN output :
       /\ ContainsJoin(output[i]) /\ JoinsAsControlPlane(Invocation(output, i))
       /\ ContainsJoin(output[j]) /\ ~JoinsAsControlPlane(Invocation(output, j))

\* C34 as stated: for an output with a control-plane join invocation and a
\* worker join invocation, the command extractJoinCommand returns (the one
\* handed to JoinWorker) has neither --control-plane nor --certificate-key.
C34_ExtractedJoinIsWorkerJoin ==
    \A i \in DOMAIN out :
       out[i].fn = "extractJoinCommand" /\ HasBothInvocations(arg) =>
          ~JoinsAsControlPlane(out[i].val)

\* the token after the first --certificate-key of the output, <<>> when the
\* output has no flag or no token follows it on its line
KeyToken(output) ==
    IF \A i \in DOMAIN output : ~HasKeyFlag(output[i]) THEN <<>>
    ELSE LET line == output[CHOOSE i \in DOMAIN output :
                              /\ HasKeyFlag(output[i])
                              /\ \A k \in 1..(i - 1) : ~HasKeyFlag(output[k])]
             p == CHOOSE i \in DOMAIN line :
                     /\ line[i] = CertificateKeyFlag
                     /\ \A k \in 1..(i - 1) : line[k] # CertificateKeyFlag
         IN  IF p < Len(line) THEN << line[p + 1] >> ELSE <<>>

\* C35 as stated: extractCertificateKey never panics and returns the token
\* that follows the first --certificate-key, or the empty string when there
\* is none, also when the flag is the last token of its line.
C35_CertificateKeyTotal ==
    \A i \in DOMAIN out :
       out[i].fn = "extractCertificateKey" =>
          out[i].val # Panic /\ out[i].val = KeyToken(arg)

(***************************************************************************)
(* One operation of an SSHClient, checked under SpecSession.  The remote   *)
(* process writes the chunks of its script, each to stdout or to stderr,   *)
(* and exits; the operation returns through one branch of its select.      *)
(***************************************************************************)
\* chunks a remote process writes
MaxChunks == 3

Operations == {"RunCommand", "RunCommandWithCallback", "UploadFile", "DownloadFile"}

\* a script names, chunk by chunk, the stream the process writes to
Scripts == UNION { [1..n -> {"stdout", "stderr"}] : n \in 0..MaxChunks }

NoReturn == [err |-> "", stdout |-> <<>>, stderr |-> <<>>]

NewSession(op, script) ==
    [op |-> op, script |-> script, next |-> 1, remote |-> "running",
     stdout |-> <<>>, stderr |-> <<>>, reader |-> "stdout", callback |-> <<>>,
     done |-> FALSE, cancelled |-> FALSE, signalled |-> FALSE,
     pc |-> "select", ret |-> NoReturn]

InSelect == session.op \in Operations /\ session.pc = "select"

\* the remote process writes its next chunk: into the buffer of the stream
\* (RunCommand, DownloadFile) or into its pipe (RunCommandWithCallback)
RemoteWrite ==
    /\ InSelect
    /\ session.remote = "running"
    /\ session.next <= Len(session.script)
    /\ session' = [session EXCEPT
           !.next = @ + 1,
           !.stdout = IF session.script[session.next] = "stdout"
                      THEN Append(@, session.next) ELSE @,
           !.stderr = IF session.script[session.next] = "stderr"
                      THEN Append(@, session.next) ELSE @]
    /\ UNCHANGED <<orchVars, broadcast, hub, connVars, repo, resp, arg, out, process, prov>>

\* the remote process exits; session.Run of the operations that use it
\* returns and its goroutine sends on done
RemoteExit ==
    /\ InSelect
    /\ session.remote = "running"
    /\ session.next > Len(session.script)
    /\ session' = [session EXCEPT
           !.remote = "exited",
           !.done = session.op # "RunCommandWithCallback"]
    /\ UNCHANGED <<orchVars, broadcast, hub, connVars, repo, resp, arg, out, process, prov>>

\* one Read of io.MultiReader(stdout, stderr) in the streaming goroutine: the
\* reader serves stdout until its end of file and only then stderr; after the
\* end of both, session.Wait returns and the goroutine sends on done
StreamRead ==
    /\ InSelect
    /\ session.op = "RunCommandWithCallback"
    /\ \/ /\ session.reader = "stdout"
          /\ session.stdout # <<>>
          /\ session' = [session EXCEPT !.stdout = Tail(@),
                             !.callback = Append(@, Head(session.stdout))]
       \/ /\ session.reader = "stdout"
          /\ session.stdout = <<>>
          /\ session.remote = "exited"
          /\ session' = [session EXCEPT !.reader = "stderr"]
       \/ /\ session.reader = "stderr"
          /\ session.stderr # <<>>
          /\ session' = [session EXCEPT !.stderr = Tail(@),
                             !.callback = Append(@, Head(session.stderr))]
       \/ /\ session.reader = "stderr"
          /\ session.stderr = <<>>
          /\ session.remote = "exited"
          /\ session' = [session EXCEPT !.reader = "finished", !.done = TRUE]
    /\ UNCHANGED <<orchVars, broadcast, hub, connVars, repo, resp, arg, out, process, prov>>

\* the caller's context is cancelled
ContextCancel ==
    /\ InSelect
    /\ ~session.cancelled
    /\ session' = [session EXCEPT !.cancelled = TRUE]
    /\ UNCHANGED <<orchVars, broadcast, hub, connVars, repo, resp, arg, out, process, prov>>

\* the operations whose ctx.Done branch calls session.Signal(ssh.SIGKILL)
SignalsOnCancel == {"RunCommand", "RunCommandWithCallback"}

\* case <-ctx.Done(): RunCommand returns its buffers with ctx.Err(), the
\* other operations return ctx.Err() alone
ReturnCancelled ==
    /\ InSelect
    /\ session.cancelled
    /\ LET sig == session.op \in SignalsOnCancel
       IN  session' = [session EXCEPT
               !.signalled = sig,
               !.remote = IF sig /\ @ = "running" THEN "killed" ELSE @,
               !.pc = "returned",
               !.ret = [err |-> "context canceled",
                        stdout |-> IF session.op = "RunCommand"
                                   THEN session.stdout ELSE <<>>,
                        stderr |-> IF session.op = "RunCommand"
                                   THEN session.stderr ELSE <<>>]]
    /\ UNCHANGED <<orchVars, broadcast, hub, connVars, repo, resp, arg, out, process, prov>>

\* case err := <-done
ReturnDone ==
    /\ InSelect
    /\ session.done
    /\ session' = [session EXCEPT
           !.pc = "returned",
           !.ret = [err |-> "nil",
                    stdout |-> IF session.op = "RunCommand"
                               THEN session.stdout ELSE <<>>,
                    stderr |-> IF session.op = "RunCommand"
                               THEN session.stderr ELSE <<>>]]
    /\ UNCHANGED <<orchVars, broadcast, hub, connVars, repo, resp, arg, out, process, prov>>

InitSession ==
    /\ Start
    /\ arg = <<>>
    /\ session \in { NewSession(op, sc) : op \in Operations, sc \in Scripts }
    /\ prov = NoOperation

NextSession ==
    \/ RemoteWrite
    \/ RemoteExit
    \/ StreamRead
    \/ ContextCancel
    \/ ReturnCancelled
    \/ ReturnDone

SpecSession == InitSession /\ [][NextSession]_vars

\* C23 as stated: an operation that returns because its context was
\* cancelled before the remote process exited has signalled the process,
\* returns the cancellation cause, and (where it returns output) the output
\* captured so far.
C23_CancelSignalsAndReturns ==
    session.op \in Operations /\ session.pc = "returned"
      /\ session.cancelled /\ session.remote # "exited" =>
        /\ session.signalled
        /\ session.ret.err = "context canceled"
        /\ session.op = "RunCommand" =>
              session.ret.stdout = session.stdout /\ session.ret.stderr = session.stderr

\* the chunks of a script in the order the process wrote them
Produced(script) == [i \in 1..Len(script) |-> i]

\* C30 as stated: when RunCommandWithCallback returns through done, the
\* remote process has exited and the callback received the chunks in the
\* order the process wrote them, whatever the interleaving of the streams.
C30_StreamOrderPreserved ==
    session.op = "RunCommandWithCallback" /\ session.pc = "returned"
      /\ session.ret.err = "nil" =>
        /\ session.remote = "exited"
        /\ session.callback = Produced(session.script)

(***************************************************************************)
(* Shutdown of the server process, checked under SpecShutdown.  main waits *)
(* for SIGINT or SIGTERM, shuts the HTTP server down and returns; the      *)
(* provisioning goroutines run on context.Background() until then.         *)
(***************************************************************************)
\* main receives from quit
Quit ==
    /\ process = "serving"
    /\ process' = "shutdown"
    /\ UNCHANGED <<orchVars, broadcast, hub, connVars, repo, resp, arg, out, session, prov>>

\* srv.Shutdown has returned and main returns: every goroutine ends with it
MainReturns ==
    /\ process = "shutdown"
    /\ process' = "exited"
    /\ UNCHANGED <<orchVars, broadcast, hub, connVars, repo, resp, arg, out, session, prov>>

\* requests are accepted until srv.Shutdown closes the listener; goroutines
\* run until the process has exited
NextShutdown ==
    \/ /\ process = "serving"
       /\ Len(clusters) < NumClusters
       /\ \E r \in Requests(Len(clusters) + 1) : CreateCluster(r)
    \/ /\ process # "exited"
       /\ \E c \in ClusterIDs : Provision(c)
    \/ /\ process # "exited"
       /\ StartHub
    \/ /\ process # "exited"
       /\ HubBroadcast
    \/ Quit
    \/ MainReturns

SpecShutdown == Init /\ [][NextShutdown]_vars

\* the last persisted event of cluster c
LastEvent(c) ==
    events[CHOOSE i \in EventsOf(c) : \A j \in EventsOf(c) : j <= i]

\* C24 as stated: once shutdown has begun no provisioning goroutine invokes
\* a further remote operation, and when the process exits every goroutine
\* still in flight has recorded a warn event as the last event of its cluster.
C24_ShutdownCancelsTasks ==
    [][/\ process # "serving" => calls' = calls
       /\ process = "shutdown" /\ process' = "exited" =>
             \A c \in Created :
                ~Done(c) => EventsOf(c) # {} /\ LastEvent(c).level = "warn"]_vars

\* C25 as stated: every node that is not deleted belongs to a cluster that
\* exists and is not deleted.
C25_NodesOfDeletedClusterDeleted ==
    \A n \in DOMAIN nodes :
       ~nodes[n].Deleted =>
          nodes[n].ClusterID \in Created /\ ~clusters[nodes[n].ClusterID].Deleted

\* C26 as stated: when a provisioning run has ended and left the status of
\* its (not deleted) cluster failed, the last persisted event of the cluster is an error
\* event with step error and host localhost whose message is the context of
\* the failing step followed by the error text.
C26_FailedEndsWithErrorEvent ==
    \A c \in Created :
       Done(c) /\ ~clusters[c].Deleted /\ clusters[c].Status = "failed" =>
          /\ EventsOf(c) # {}
          /\ LastEvent(c).level = "error"
          /\ LastEvent(c).step = "error"
          /\ LastEvent(c).host = Localhost
          /\ Len(LastEvent(c).message) = 2
          /\ LastEvent(c).message[2] = "err"

\* NewKubeadmProvisioner returns &KubeadmProvisioner{}: the callback is nil,
\* and nothing sets it
eventCallback == "nil"

\* emitEvent: the events handed to the callback
emitEvent(level, host, step, message) ==
    IF eventCallback # "nil"
    THEN << [level |-> level, host |-> host, step |-> step, message |-> message] >>
    ELSE <<>>

\* the events prepareHost hands to the callback for a host on which every
\* command succeeds (swap off)
prepareHostEvents(address) ==
    emitEvent("info", address, "prepare", "Connected to host")
    \o emitEvent("info", address, "prepare", "Loading kernel modules")
    \o emitEvent("info", address, "prepare", "Configuring sysctl parameters")
    \o emitEvent("info", address, "prepare", "Host prepared successfully")

\* C27 as stated: the preparation of a host emits its entry and success
\* events, and these are persisted for the cluster: after a successful
\* prepareHost there are info events of step prepare for that host, after a
\* failed one an error event for that host.
C27_PrepareStepsEmitEvents ==
    \A c \in Created :
       \A i \in DOMAIN calls[c] :
          calls[c][i].op = "prepareHost" =>
             IF calls[c][i].ok
             THEN /\ Len(prepareHostEvents(calls[c][i].host)) >= 2
                  /\ \E e \in EventsOf(c) :
                        /\ events[e].level = "info"
                        /\ events[e].step = "prepare"
                        /\ events[e].host = calls[c][i].host
             ELSE \E e \in EventsOf(c) :
                     events[e].level = "error" /\ events[e].host = calls[c][i].host

\* C28: the buffer of Hub.broadcast never holds more than its bound; it
\* changes only by a publisher appending its event at the end or by the hub
\* loop taking the event at the head for dispatch, so no event in it is
\* dropped or overwritten; and a publisher that finds it full does not move.
C28_BroadcastBoundedNoDrop ==
    [][/\ Len(broadcast') <= BroadcastCap
       /\ \/ broadcast' = broadcast
          \/ \E c \in Created :
                /\ task[c].pc = "broadcast"
                /\ broadcast' = Append(broadcast, [clusterID |-> c, data |-> task[c].emit])
          \/ /\ broadcast # <<>>
             /\ broadcast' = Tail(broadcast)
             /\ \/ Recipients(clients, Head(broadcast)) = {}
                \/ hub'.msg = Head(broadcast)
       /\ \A c \in Created :
             task[c].pc = "broadcast" /\ Len(broadcast) = BroadcastCap =>
                task'[c] = task[c]]_vars

\* the buffer is full and a publisher waits at its send
C28_Witness ==
    /\ Len(broadcast) = BroadcastCap
    /\ \E c \in Created : task[c].pc = "broadcast"

(***************************************************************************)
(* One operation of the provisioner, step by step, checked under           *)
(* SpecOperation: NewSSHClient, the remote commands of the operation in    *)
(* the order of its code, the deferred client.Close(), and the loops of    *)
(* PrepareHosts and DestroyCluster over their hosts.  prov.log records     *)
(* what was done on which host.                                            *)
(***************************************************************************)
\* hosts handed to PrepareHosts or DestroyCluster
MaxHosts == 2

ProvisionerOps ==
    {"PrepareHosts", "BootstrapControlPlane", "InstallCNI", "JoinControlPlane",
     "JoinWorker", "DestroyCluster"}

\* the operations that loop over a list of hosts
HostLoops == {"PrepareHosts", "DestroyCluster"}

\* the remote steps of an operation on one host, in the order of the code;
\* prepareHost disables swap only when GetHostInfo reported it
Steps(op, swap) ==
    CASE op = "PrepareHosts" ->
            <<"TestConnection", "GetHostInfo">>
            \o (IF swap THEN <<"swapoff">> ELSE <<>>)
            \o <<"modules", "sysctl", "installContainerRuntime", "installKubernetesTools">>
      [] op = "BootstrapControlPlane" -> <<"kubeadm init", "setup kubeconfig", "cat admin.conf">>
      [] op = "InstallCNI" -> <<"kubectl apply", "kubectl wait">>
      [] op = "DestroyCluster" -> <<"kubeadm reset", "cleanup">>
      [] OTHER -> <<"kubeadm join">>

\* the steps whose failure the operation ignores: GetHostInfo returns no
\* error, InstallCNI only warns when the wait fails, resetNode drops the
\* result of the cleanup
Ignored == {"GetHostInfo", "kubectl wait", "cleanup"}

\* a prepareHost that would go on after a failed command
FatalOnlyKubeadm(step) == step \in {"kubeadm init", "kubeadm join", "kubeadm reset"}

\* the steps after whose failure the operation returns an error
Fatal(step) == step \notin Ignored

\* where a return after NewSSHClient succeeded goes if Close were not deferred
ReturnWithoutClose == "hostdone"

\* where every return after NewSSHClient succeeded goes: defer client.Close()
DeferredReturn == "close"

NewOperation(op, n) ==
    [op |-> op, n |-> n, idx |-> 1, pc |-> "connect", k |-> 1, swap |-> FALSE,
     err |-> FALSE, log |-> <<>>, events |-> <<>>, ret |-> ""]

Entry(host, step, ok, swap) == [host |-> host, step |-> step, ok |-> ok, swap |-> swap]

\* NewSSHClient(host) at the head of the operation: on an error the
\* operation on this host returns at once, no client exists
OpConnect ==
    /\ prov.op \in ProvisionerOps
    /\ prov.pc = "connect"
    /\ \E ok \in BOOLEAN :
          prov' = [prov EXCEPT
              !.log = Append(@, Entry(prov.idx, "NewSSHClient", ok, FALSE)),
              !.pc = IF ok THEN "run" ELSE "hostdone",
              !.k = 1, !.swap = FALSE, !.err = ~ok,
              !.events = @ \o (IF ok /\ prov.op = "DestroyCluster"
                               THEN emitEvent("info", prov.idx, "reset", "Running kubeadm reset")
                               ELSE <<>>)]
    /\ UNCHANGED <<orchVars, broadcast, hub, connVars, repo, resp, arg, out, session, process>>

\* the next remote step of the operation
OpRunStep ==
    /\ prov.op \in ProvisionerOps
    /\ prov.pc = "run"
    /\ LET steps == Steps(prov.op, prov.swap)
           step == steps[prov.k]
       IN  \E ok \in (IF step = "GetHostInfo" THEN {TRUE} ELSE BOOLEAN),
              sw \in (IF step = "GetHostInfo" THEN BOOLEAN ELSE {FALSE}) :
              prov' = [prov EXCEPT
                  !.log = Append(@, Entry(prov.idx, step, ok, sw)),
                  !.swap = IF step = "GetHostInfo" THEN sw ELSE @,
                  !.err = ~ok /\ Fatal(step),
                  !.k = @ + 1,
                  !.pc = IF (~ok /\ Fatal(step))
                            \/ prov.k = Len(Steps(prov.op, IF step = "GetHostInfo"
                                                           THEN sw ELSE prov.swap))
                         THEN DeferredReturn ELSE "run"]
    /\ UNCHANGED <<orchVars, broadcast, hub, connVars, repo, resp, arg, out, session, process>>

\* the deferred client.Close()
OpClose ==
    /\ prov.op \in ProvisionerOps
    /\ prov.pc = "close"
    /\ prov' = [prov EXCEPT !.log = Append(@, Entry(prov.idx, "Close", TRUE, FALSE)),
                            !.pc = "hostdone"]
    /\ UNCHANGED <<orchVars, broadcast, hub, connVars, repo, resp, arg, out, session, process>>

\* the operation on one host has returned: PrepareHosts returns the error of
\* the first host that fails, DestroyCluster emits a warn event and goes on
\* and returns nil, the other operations return what their host returned
OpHostReturn ==
    /\ prov.op \in ProvisionerOps
    /\ prov.pc = "hostdone"
    /\ LET more == prov.op \in HostLoops /\ prov.idx < prov.n
                   /\ (prov.op = "DestroyCluster" \/ ~prov.err)
       IN  prov' = [prov EXCEPT
               !.events = @ \o (IF prov.op = "DestroyCluster" /\ prov.err
                                THEN emitEvent("warn", prov.idx, "destroy",
                                               "Failed to reset node")
                                ELSE <<>>),
               !.idx = IF more THEN @ + 1 ELSE @,
               !.pc = IF more THEN "connect" ELSE "returned",
               !.ret = IF more THEN ""
                       ELSE IF prov.err /\ prov.op # "DestroyCluster" THEN "error"
                       ELSE "nil"]
    /\ UNCHANGED <<orchVars, broadcast, hub, connVars, repo, resp, arg, out, session, process>>

InitOperation ==
    /\ Start
    /\ arg = <<>>
    /\ session = NoSession
    /\ prov \in { NewOperation(op, n) :
                    op \in ProvisionerOps, n \in 1..MaxHosts }
    /\ prov.op \notin HostLoops => prov.n = 1

NextOperation ==
    \/ OpConnect
    \/ OpRunStep
    \/ OpClose
    \/ OpHostReturn

SpecOperation == InitOperation /\ [][NextOperation]_vars

\* the positions of prov.log that concern host i, and those of step s
LogOf(i) == {j \in DOMAIN prov.log : prov.log[j].host = i}
LogAt(i, s) == {j \in LogOf(i) : prov.log[j].step = s}

\* the operation on host i has returned
HostReturned(i) ==
    \/ prov.idx > i
    \/ prov.idx = i /\ prov.pc \in {"hostdone", "returned"}

\* C31: a client is closed only after it was opened, at most once; every
\* remote step on a host runs on the open client; and when the operation on
\* a host has returned, on success or with an error, the client that was
\* opened for it has been closed exactly once, by the last thing done there.
C31_ClientClosedExactlyOnce ==
    prov.op \in ProvisionerOps =>
       \A i \in 1..prov.n :
          /\ Cardinality(LogAt(i, "Close")) <= 1
          /\ Cardinality(LogAt(i, "NewSSHClient")) <= 1
          /\ \A c \in LogAt(i, "Close") :
                /\ \E o \in LogAt(i, "NewSSHClient") : o < c /\ prov.log[o].ok
                /\ \A j \in LogOf(i) : j <= c
          /\ \A j \in LogOf(i) :
                prov.log[j].step \notin {"NewSSHClient", "Close"} =>
                   \E o \in LogAt(i, "NewSSHClient") : o < j /\ prov.log[o].ok
          /\ HostReturned(i) =>
                \A o \in LogAt(i, "NewSSHClient") :
                   prov.log[o].ok => Cardinality(LogAt(i, "Close")) = 1

\* an operation has returned an error after a failed command, its client
\* closed
C31_Witness ==
    /\ prov.op \in ProvisionerOps
    /\ prov.pc = "returned"
    /\ prov.ret = "error"
    /\ \E j \in DOMAIN prov.log :
          prov.log[j].step \notin {"NewSSHClient", "Close"} /\ ~prov.log[j].ok
    /\ LogAt(prov.idx, "Close") # {}

\* the remote steps done on host i, in order
StepsOn(i) ==
    LET mine == SelectSeq(prov.log,
                   LAMBDA e : e.host = i /\ e.step \notin {"NewSSHClient", "Close"})
    IN  [j \in DOMAIN mine |-> mine[j].step]

\* the probe of host i reported active swap
SwapReported(i) == \E j \in LogAt(i, "GetHostInfo") : prov.log[j].swap

\* something failed on host i: the connection or a step that is not ignored
FailedOn(i) ==
    \E j \in LogOf(i) : ~prov.log[j].ok /\ prov.log[j].step \notin Ignored

\* the order the preparation of a host is to follow
PrepareOrder(swap) ==
    <<"TestConnection", "GetHostInfo">>
    \o (IF swap THEN <<"swapoff">> ELSE <<>>)
    \o <<"modules", "sysctl", "installContainerRuntime", "installKubernetesTools">>

\* C32: the steps done on a host are an initial part of the fixed order
\* (swap only when the probe reported it); no step follows a failed one; a
\* host is begun only when every earlier host was prepared completely; and
\* PrepareHosts returns an error exactly when a host failed, having touched
\* no later host.
C32_PrepareOrderAndStop ==
    prov.op = "PrepareHosts" =>
       /\ \A i \in 1..prov.n :
             /\ IsPrefix(StepsOn(i), PrepareOrder(SwapReported(i)))
             /\ \A j, l \in LogOf(i) : j < l /\ prov.log[l].step # "Close" =>
                   prov.log[j].ok
             /\ \A h \in 1..(i - 1) :
                   LogOf(i) # {} =>
                      ~FailedOn(h) /\ StepsOn(h) = PrepareOrder(SwapReported(h))
       /\ prov.pc = "returned" =>
             (prov.ret = "error") = (\E i \in 1..prov.n : FailedOn(i))

\* the second host was left untouched after a step failed on the first
C32_Witness ==
    /\ prov.op = "PrepareHosts"
    /\ prov.n = 2
    /\ prov.pc = "returned"
    /\ \E j \in LogOf(1) : prov.log[j].step = "sysctl" /\ ~prov.log[j].ok
    /\ LogOf(2) = {}

\* C36 as stated: DestroyCluster attempts the reset on every host, also after
\* an earlier host failed, returns success, and has reported a warn event for
\* every host whose reset failed.
C36_DestroyBestEffort ==
    prov.op = "DestroyCluster" /\ prov.pc = "returned" =>
       /\ prov.ret = "nil"
       /\ \A i \in 1..prov.n : LogAt(i, "NewSSHClient") # {}
       /\ \A i \in 1..prov.n :
             FailedOn(i) =>
                \E e \in DOMAIN prov.events :
                   prov.events[e].level = "warn" /\ prov.events[e].host = i

\* C33 as stated: a cluster row is deleted only while its status is
\* destroying, and the status becomes destroying only from ready.
C33_DeleteOnlyFromDestroying ==
    [][\A c \in Created :
          /\ ~clusters[c].Deleted /\ clusters'[c].Deleted =>
                clusters[c].Status = "destroying"
          /\ clusters[c].Status # "destroying" /\ clusters'[c].Status = "destroying" =>
                clusters[c].Status = "ready"]_vars

\* the orchestrator with its goroutines scheduled fairly: a provisioning
\* goroutine that can take a step takes one, and so does a hub loop that has
\* been started; nothing obliges the program to start the hub loop
SpecLive ==
    /\ Init
    /\ [][Next]_vars
    /\ WF_vars(\E c \in ClusterIDs : Provision(c))
    /\ WF_vars(HubBroadcast)

\* C39 as stated: every started provisioning goroutine ends, and the status
\* of its cluster (unless the cluster was deleted meanwhile) is then ready or
\* failed, whether or not the hub loop was started.
C39_ProvisioningTerminates ==
    \A c \in ClusterIDs :
       (c \in Created) ~>
          (/\ c \in Created
           /\ Done(c)
           /\ clusters[c].Deleted \/ clusters[c].Status \in {"ready", "failed"})

\* the messages for cluster c handed to Hub.broadcast and not yet received
QueuedFor(c) == SelectSeq(broadcast, LAMBDA m : m.clusterID = c)

\* C40 as stated: once a cluster is deleted, its provisioning goroutine runs
\* no further remote operation, and no further event of the cluster is
\* persisted or handed to the hub.
C40_DeleteStopsTask ==
    [][\A c \in Created :
          clusters[c].Deleted =>
             /\ calls'[c] = calls[c]
             /\ EventsOf(c)' = EventsOf(c)
             /\ Len(QueuedFor(c)') <= Len(QueuedFor(c))]_vars

\* the requests submitted while the hub is checked: for cluster 1 one control
\* plane that passes validation and cannot be reached (two events), for the
\* others one control plane without a key (one event)
HubRequests(id) ==
    { CreateClusterRequest(<<"c", id>>, 1, 0, "", IF id = 1 THEN "blank" ELSE "nokey") }

\* the positions of provisionCluster those requests reach
Emitter(c) ==
    \/ ProvStart(c)
    \/ ProvValidate(c)
    \/ ProvBroadcast(c)
    \/ ProvSetFailed(c)
    \/ ProvPrepare(c)

(***************************************************************************)
(* Properties of the fan-out, checked under SpecHub.                       *)
(***************************************************************************)
\* the frames of connection k written by the history goroutine ("history") or
\* by the hub ("live"), and the event ids of a sequence of frames
Frames(k, via) == SelectSeq(recv[k], LAMBDA f : f.via = via)
Ids(fs) == [i \in DOMAIN fs |-> fs[i].data.id]
Seen(fs) == {fs[i].data.id : i \in DOMAIN fs}

Increasing(ids) == \A i, j \in DOMAIN ids : i < j => ids[i] < ids[j]

\* k is in the registry and its peer is there
Subscribed(k) ==
    /\ conn[k].state = "reading"
    /\ k \in ClientsOf(clients, conn[k].clusterID)

\* the hub goroutine is at its own send on Hub.unregister: it serves nothing
\* from here on
HubHalted == hub.pc = "unregister_send"

\* the event with id i has been handed to Hub.broadcast
Published(i) == \A c \in Created : task[c].emit # events[i]

\* the published events of k's cluster persisted after the event with id i
PublishedAfter(k, i) ==
    {j \in EventsOf(conn[k].clusterID) : j > i /\ Published(j)}

\* the largest id of a set of ids, 0 when it is empty
MaxId(ids) == IF ids = {} THEN 0 ELSE CHOOSE i \in ids : \A j \in ids : j <= i

\* C6 as stated: the live frames of a connection carry the events of its
\* cluster in the order they were persisted, without a gap, and once a still
\* subscribed connection has received a live event, no event published after
\* that one stays undelivered when the hub can deliver nothing more.
C6_LiveDeliveryOrderedAndComplete ==
    \A k \in Conns :
       LET live == Frames(k, "live") IN
       /\ Increasing(Ids(live))
       /\ \A a, b \in Seen(live) :
             \A i \in EventsOf(conn[k].clusterID) : a < i /\ i < b => i \in Seen(live)
       /\ Subscribed(k) /\ HubHalted /\ live # <<>>
             => PublishedAfter(k, live[1].data.id) \subseteq Seen(live)

\* C7 as stated: the history frames of a connection are at most HistoryLimit
\* events in chronological order, and no live frame is written to the
\* connection before its last history frame.
C7_HistoryBeforeLive ==
    \A k \in Conns :
       /\ Len(Frames(k, "history")) <= HistoryLimit
       /\ Increasing(Ids(Frames(k, "history")))
       /\ \A i, j \in DOMAIN recv[k] :
             i < j => ~(recv[k][i].via = "live" /\ recv[k][j].via = "history")

\* C8 as stated: no two frames of a connection carry the same event.
C8_NoDuplicateDelivery ==
    \A k \in Conns :
       \A i, j \in DOMAIN recv[k] : i # j => recv[k][i].data.id # recv[k][j].data.id

\* C9 as stated, T being the moment of the history query: a still subscribed
\* connection whose replay is over has received as history the events of its
\* cluster persisted up to T (all, or the HistoryLimit most recent), followed
\* by live frames only, and no event persisted after T and published stays
\* undelivered when the hub can deliver nothing more.
C9_NoEventLostAtSubscription ==
    \A k \in Conns :
       Subscribed(k) /\ conn[k].hist = "done" =>
          LET hist == Seen(Frames(k, "history"))
              upto == {i \in EventsOf(conn[k].clusterID) : i <= MaxId(hist)}
          IN  /\ \A i \in upto : Cardinality({j \in upto : j > i}) < HistoryLimit => i \in hist
              /\ \A i \in DOMAIN recv[k] :
                    recv[k][i].via = "history" =>
                       \A j \in 1..(i - 1) : recv[k][j].via = "history"
              /\ HubHalted => PublishedAfter(k, MaxId(hist)) \subseteq Seen(recv[k])

\* C10: every frame written to a connection, by the history goroutine or by
\* the hub, carries an event of the cluster the connection was opened for.
C10_NoCrossClusterDelivery ==
    \A k \in Conns :
       \A i \in DOMAIN recv[k] : recv[k][i].data.cluster_id = conn[k].clusterID

\* two connections of different clusters, one with a history frame and the
\* other with a live frame
C10_Witness ==
    \E k, l \in Conns :
       /\ conn[k].clusterID # conn[l].clusterID
       /\ Frames(k, "history") # <<>>
       /\ Frames(l, "live") # <<>>

\* C11 as stated: once a write of a broadcast event to a subscriber has failed
\* and the hub has come to the point from which it serves nothing more, that
\* subscriber has been removed from the subscriber set of its cluster and its
\* connection has been closed.
C11_FailedWriteRemovesSubscriber ==
    HubHalted =>
       \E k \in hub.todo :
          /\ WriteFails(k)
          /\ k \notin ClientsOf(clients, conn[k].clusterID)
          /\ conn[k].closed

\* the goroutines whose next statement is a write to connection k: the
\* history goroutine inside its replay loop, the hub inside its dispatch loop
\* with k still to be written
Writers(k) ==
    (IF conn[k].hist = "replay" THEN {"history"} ELSE {})
    \cup (IF hub.pc = "dispatch" /\ k \in hub.todo THEN {"hub"} ELSE {})

\* C29 as stated: only the hub writes to a subscriber connection, and never
\* are two goroutines at a write to the same connection at the same time.
C29_SingleWriter ==
    \A k \in Conns : Writers(k) \subseteq {"hub"} /\ Cardinality(Writers(k)) <= 1

\* C37 as stated: the hub loop is never at a point from which it cannot go
\* on: it is never at a send on Hub.unregister, the unbuffered channel that
\* only the hub loop itself receives from.
C37_HubNeverBlocks == hub.pc # "unregister_send"

(***************************************************************************)
(* The registry with every source of unregister requests, checked under    *)
(* SpecRegistry: the read loop and the ping goroutine of a connection both *)
(* send on Hub.unregister when the peer is gone.                           *)
(***************************************************************************)
NextRegistry ==
    \/ /\ Len(clusters) < HubClusters
       /\ \E r \in HubRequests(Len(clusters) + 1) : CreateCluster(r)
    \/ \E c \in ClusterIDs : Emitter(c)
    \/ StartHub
    \/ HubBroadcast
    \/ \E k \in Conns :
          \/ \E c \in ClusterIDs : HandleWebSocket(k, c)
          \/ HubRegister(k)
          \/ ReadError(k)
          \/ PingError(k)
          \/ HubUnregister(k, "read")
          \/ HubUnregister(k, "ping")
          \/ HubWrite(k)

SpecRegistry == Init /\ [][NextRegistry]_vars

Registered(m, k) == k \in ClientsOf(m, conn[k].clusterID)

\* every key of the map has a subscriber, and no registered connection has
\* been closed
RegistryWellFormed(m, cn) ==
    /\ \A c \in DOMAIN m : m[c] # {}
    /\ \A c \in DOMAIN m : \A k \in m[c] : ~cn[k].closed

\* an unregister request for connection k is being handled in this step
UnregisterHandled(k) ==
    \/ conn[k].state = "unregistering" /\ conn'[k].state = "returned"
    \/ conn[k].ping = "unregistering" /\ conn'[k].ping = "returned"

\* C38: every key of the registry has a subscriber and every registered
\* connection is open; a connection is closed only by the unregister request
\* that removes it from the registry, so at most once, however many requests
\* arrive for it; and a request for a connection that is not registered
\* leaves the registry and the connection as they are.
C38_RegistryWellFormed ==
    [][/\ RegistryWellFormed(clients, conn)
       /\ RegistryWellFormed(clients', conn')
       /\ \A k \in Conns :
             /\ conn'[k].closed # conn[k].closed =>
                   /\ ~conn[k].closed
                   /\ UnregisterHandled(k)
                   /\ Registered(clients, k) /\ ~Registered(clients', k)
             /\ UnregisterHandled(k) /\ ~Registered(clients, k) =>
                   clients' = clients /\ conn'[k].closed = conn[k].closed]_vars

\* both unregister requests of one connection were handled: the first closed
\* it and emptied its key, the second found it gone
C38_Witness ==
    \E k \in Conns :
       /\ conn[k].state = "returned"
       /\ conn[k].ping = "returned"
       /\ conn[k].closed
       /\ conn[k].clusterID \notin DOMAIN clients

\* one connection's handler and its goroutines: the upgrade, the history
\* goroutine, the read loop and the hub's cases for it.  The ping goroutine is
\* left out of this specification: its only effect on shared state is a second
\* send on Hub.unregister, which the hub treats like the first.
Connection(k) ==
    \/ \E c \in ClusterIDs : HandleWebSocket(k, c)
    \/ HubRegister(k)
    \/ HistoryQuery(k)
    \/ HistoryWrite(k)
    \/ ReadError(k)
    \/ HubUnregister(k, "read")
    \/ HubWrite(k)

\* the fan-out: provisioning goroutines emitting events, the hub, subscribers
NextHub ==
    \/ /\ Len(clusters) < HubClusters
       /\ \E r \in HubRequests(Len(clusters) + 1) : CreateCluster(r)
    \/ \E c \in ClusterIDs : Emitter(c)
    \/ StartHub
    \/ HubBroadcast
    \/ \E k \in Conns : Connection(k)

SpecHub == Init /\ [][NextHub]_vars

====
